---- MODULE Spec2Model ----
(***************************************************************************)
(* Landing-page behaviour of alfaroukaljwely/besher.                       *)
(*                                                                         *)
(* The repository holds two implementations of the same widgets:           *)
(*   "script"     src/script.js                                            *)
(*   "optimized"  src/unnamed/part_000 (site-optimized.js)                 *)
(* Both are run side by side against the same page and the same stream of  *)
(* browser events: every widget variable is a function of the              *)
(* implementation, the browser's own state (scroll offset, pointer, clock) *)
(* is shared.                                                              *)
(*                                                                         *)
(* Each widget has its own specification (SpecScroll, SpecObserver, ...):  *)
(* the widgets share no state, so a specification moves one widget's       *)
(* variables and leaves the others at their initial value.                 *)
(***************************************************************************)
EXTENDS Integers, Sequences, FiniteSets, TLC

Impls == {"script", "optimized"}

(***************************************************************************)
(* Bounds of the model.                                                    *)
(***************************************************************************)
\* scroll events dispatched between two animation frames
MaxScrollsPerFrame == 2
\* section[id] elements of the page
NumSections == 3
\* img[loading="lazy"] elements of the page
NumImages == 2
\* [data-aos] elements of the page
NumAos == 2
\* most slides of the hero slider
MaxSlides == 3
\* most interval timers alive at once
MaxLiveTimers == 3
\* most slide advances followed
MaxAdvances == 4
\* .accordion-item elements of the accordion
NumItems == 3
\* most countdown interval ticks followed
MaxTicks == 3
\* most query parameters of an anchor in the markup
MaxLinkParams == 2
\* most runs of the tagging handler
MaxTagRuns == 2
\* banner selectors of updateBackToTopHeight whose element the page may have
NumBannerSelectors == 2

(***************************************************************************)
(* Program constants.                                                      *)
(***************************************************************************)
ScrolledThreshold == 50
BackToTopThreshold == 300
NavOffset == 100
DefaultHeaderHeight == 80
MobileBreakpoint == 992
\* lengths of the back-to-top spacing controller, in half pixels
DefaultBackHeight == 120
ButtonPadding == 24
BannerClearance == 20
BottomMargin == 20
\* the value written when the computation throws, in pixels
FallbackPx == 72

VARIABLES
  \* ---- scroll coordinator, header, mobile menu, active link ----
  pageYOffset,    \* window.pageYOffset / window.scrollY
  offsetHeight,   \* header.offsetHeight, read once at initialization
  loaded,         \* the window "load" event has been dispatched
  frameClosed,    \* the last step was an animation frame
  scrollsInFrame, \* scroll events dispatched since the last animation frame
  sc,             \* per implementation: the header / menu / nav-link state
  \* ---- visibility observers: lazy images and [data-aos] elements ----
  hasIO,          \* "IntersectionObserver" in window
  hasAOS,         \* typeof AOS !== "undefined" (the external library is loaded)
  img,            \* per implementation, per lazy image: attributes and observation
  aos,            \* per implementation, per [data-aos] element: classes and observation
  seenIn,         \* per implementation: the targets an observer reported as intersecting
  \* ---- hero image slider ----
  numSlides,      \* .heroBannerImage elements inside #heroImageSlider
  hovered,        \* the pointer is over the slider
  docHidden,      \* document.hidden
  sl,             \* per implementation: index, classes and interval timers
  \* ---- accordion ----
  acc,            \* per implementation, per .accordion-item: header, panel, icon
  accLast,        \* per implementation: what the last accordion event did
  \* ---- countdown ----
  now,            \* Date.now(), in ms since the page was parsed
  cdStarted,      \* the window "load" handler has started the countdown
  ticks,          \* interval ticks so far
  cd,             \* per implementation: data-countdown-date, rendered digits, pulse
  \* ---- outbound link tagger ----
  pageParams,     \* window.location.search: value of each query key, or Null
  origLink,       \* the anchor as the markup has it
  tagRuns,        \* how often the tagging handler has run
  link,           \* per implementation: the anchor's data-out, href and rel
  \* ---- page structure: optional elements ----
  present,        \* the optional elements the page has
  boot,           \* per implementation: controllers wired, exceptions raised, timer
  \* ---- back-to-top spacing ----
  backBtn,        \* #backToTop: present, bounding-rect height, computed style height
  banner,         \* per banner selector: its first element's rect, or NoBanner
  innerHeight,    \* window.innerHeight
  cssVar,         \* per implementation: --back-to-top-height, in px
  lastRun         \* "ok" / "threw": the last step recomputed; "none": it did not

scrollVars == <<pageYOffset, offsetHeight, loaded, frameClosed, scrollsInFrame, sc>>

observerVars == <<hasIO, hasAOS, img, aos, seenIn>>

sliderVars == <<numSlides, hovered, docHidden, sl>>

accordionVars == <<acc, accLast>>

countdownVars == <<now, cdStarted, ticks, cd>>

taggerVars == <<pageParams, origLink, tagRuns, link>>

pageVars == <<present, boot>>

heightVars == <<backBtn, banner, innerHeight, cssVar, lastRun>>

vars == <<scrollVars, observerVars, sliderVars, accordionVars, countdownVars, taggerVars,
          pageVars, heightVars>>

\* What a widget's steps leave alone: the other widgets.
notScroll == <<observerVars, sliderVars, accordionVars, countdownVars, taggerVars, pageVars,
  heightVars>>
notObserver == <<scrollVars, sliderVars, accordionVars, countdownVars, taggerVars, pageVars,
  heightVars>>
notSlider == <<scrollVars, observerVars, accordionVars, countdownVars, taggerVars, pageVars,
  heightVars>>
notAccordion == <<scrollVars, observerVars, sliderVars, countdownVars, taggerVars, pageVars,
  heightVars>>
notCountdown == <<scrollVars, observerVars, sliderVars, accordionVars, taggerVars, pageVars,
  heightVars>>
notTagger == <<scrollVars, observerVars, sliderVars, accordionVars, countdownVars, pageVars,
  heightVars>>
notPage == <<scrollVars, observerVars, sliderVars, accordionVars, countdownVars, taggerVars,
  heightVars>>
notHeight == <<scrollVars, observerVars, sliderVars, accordionVars, countdownVars, taggerVars,
  pageVars>>

\* A widget that a specification does not run stays at these values.
IdleScroll ==
  /\ pageYOffset = 0
  /\ offsetHeight = 0
  /\ loaded = FALSE
  /\ frameClosed = FALSE
  /\ scrollsInFrame = 0
  /\ sc = <<>>

IdleObserver ==
  /\ hasIO = FALSE
  /\ hasAOS = FALSE
  /\ img = <<>>
  /\ aos = <<>>
  /\ seenIn = <<>>

IdleSlider ==
  /\ numSlides = 0
  /\ hovered = FALSE
  /\ docHidden = FALSE
  /\ sl = <<>>

IdleAccordion ==
  /\ acc = <<>>
  /\ accLast = <<>>

IdleCountdown ==
  /\ now = 0
  /\ cdStarted = FALSE
  /\ ticks = 0
  /\ cd = <<>>

IdleTagger ==
  /\ pageParams = <<>>
  /\ origLink = <<>>
  /\ tagRuns = 0
  /\ link = <<>>

IdlePage ==
  /\ present = {}
  /\ boot = <<>>

IdleHeight ==
  /\ backBtn = <<>>
  /\ banner = <<>>
  /\ innerHeight = 0
  /\ cssVar = <<>>
  /\ lastRun = "none"

(***************************************************************************)
(* SCROLL COORDINATOR                                                      *)
(***************************************************************************)

\* Page layout: section s spans [SectionTop(s), SectionTop(s) + SectionHeight(s)),
\* with a gap of 50px after every section.
Sections == 1..NumSections
SectionTop(s) == (s - 1) * 200
SectionHeight(s) == 150

\* [data-nav-link] anchors.  Link l (1..NumSections) has href "#<section l>",
\* link 0 points at no section, link NumSections+1 is a second link to section 1.
NavLinks == 0..(NumSections + 1)
LinkHref(l) == IF l = NumSections + 1 THEN 1 ELSE l

\* Scroll offsets the browser reports: around every threshold of the code,
\* -1 is an overscroll (rubber-band) position.
ScrollOffsets ==
  { -1, 0,
    ScrolledThreshold,
    DefaultHeaderHeight, DefaultHeaderHeight + 1,
    150,
    BackToTopThreshold, BackToTopThreshold + 1 }

Routines == {"updateHeader", "setActiveLink", "toggleBackToTopButton"}
ZeroCalls == [r \in Routines |-> 0]

\* A scroll-driven routine reads the scroll offset y.  s.lastRead is the offset the
\* previous read returned; s.mixed tells that two reads made for the current frame
\* returned different offsets.
Sample(s, y) ==
  [s EXCEPT !.mixed = @ \/ ((\E r \in Routines : s.calls[r] > 0) /\ s.lastRead # y),
            !.lastRead = y]

\* s.calls[r]: invocations of routine r scheduled by scroll events in the current
\* frame; s.lastRun: routines run by the last step.  Every routine reads the scroll
\* offset once, when it starts.
Invoke(s, r, y) ==
  [Sample(s, y) EXCEPT !.calls[r] = @ + 1, !.lastRun = @ \cup {r}]
Ran(s, r) == [s EXCEPT !.lastRun = @ \cup {r}]

\* const headerHeight = header.offsetHeight            (script.js)
\* const headerHeight = header.offsetHeight || 80      (optimized)
HeaderHeight(i) ==
  IF i = "script" THEN offsetHeight
  ELSE IF offsetHeight # 0 THEN offsetHeight ELSE DefaultHeaderHeight

\* script.js updateHeader keeping a negative offset as the previous offset
UpdateHeaderScriptNoClamp(s, y, hh) ==
  LET currentScroll == y
      hide == IF ~s.menuOpen
                THEN (currentScroll > s.lastScroll /\ currentScroll > hh)
                ELSE s.hide
  IN [s EXCEPT !.scrolled = currentScroll > ScrolledThreshold,
               !.hide = hide,
               !.backShow = currentScroll > BackToTopThreshold,
               !.lastScroll = currentScroll,
               !.ticking = FALSE,
               !.sample = currentScroll]

\* script.js updateHeader
UpdateHeaderScript(s, y, hh) ==
  LET currentScroll == y
      hide == IF ~s.menuOpen
                THEN (currentScroll > s.lastScroll /\ currentScroll > hh)
                ELSE s.hide
  IN [s EXCEPT !.scrolled = currentScroll > ScrolledThreshold,
               !.hide = hide,
               !.backShow = currentScroll > BackToTopThreshold,
               !.lastScroll = IF currentScroll <= 0 THEN 0 ELSE currentScroll,
               !.ticking = FALSE,
               !.sample = currentScroll]

Max(a, b) == IF a >= b THEN a ELSE b

\* optimized updateHeader with the back-to-top comparison off by one (>= 300)
UpdateHeaderOptimizedGe(s, y, hh) ==
  LET currentScroll == IF y # 0 THEN y ELSE 0
      hide == IF ~s.menuOpen
                THEN (currentScroll > s.lastScroll /\ currentScroll > hh)
                ELSE s.hide
  IN [s EXCEPT !.scrolled = currentScroll > ScrolledThreshold,
               !.hide = hide,
               !.backShow = currentScroll >= BackToTopThreshold,
               !.lastScroll = Max(0, currentScroll),
               !.ticking = FALSE,
               !.sample = currentScroll]

\* optimized updateHeader keeping a negative offset as the previous offset
UpdateHeaderOptimizedNoClamp(s, y, hh) ==
  LET currentScroll == IF y # 0 THEN y ELSE 0
      hide == IF ~s.menuOpen
                THEN (currentScroll > s.lastScroll /\ currentScroll > hh)
                ELSE s.hide
  IN [s EXCEPT !.scrolled = currentScroll > ScrolledThreshold,
               !.hide = hide,
               !.backShow = currentScroll > BackToTopThreshold,
               !.lastScroll = currentScroll,
               !.ticking = FALSE,
               !.sample = currentScroll]

\* optimized updateHeader
UpdateHeaderOptimized(s, y, hh) ==
  LET currentScroll == IF y # 0 THEN y ELSE 0   \* pageYOffset || scrollY || 0
      hide == IF ~s.menuOpen
                THEN (currentScroll > s.lastScroll /\ currentScroll > hh)
                ELSE s.hide
  IN [s EXCEPT !.scrolled = currentScroll > ScrolledThreshold,
               !.hide = hide,
               !.backShow = currentScroll > BackToTopThreshold,
               !.lastScroll = Max(0, currentScroll),
               !.ticking = FALSE,
               !.sample = currentScroll]

updateHeader(i, s, y) ==
  IF i = "script" THEN UpdateHeaderScript(s, y, HeaderHeight(i))
  ELSE UpdateHeaderOptimized(s, y, HeaderHeight(i))

\* The sections.forEach loop of setActiveLink / setActive, from section k on:
\* every matching section rewrites the active class of all links.
RECURSIVE ActiveAfter(_, _, _)
ActiveAfter(active, scrollPosition, k) ==
  IF k > NumSections THEN active
  ELSE IF scrollPosition >= SectionTop(k)
          /\ scrollPosition < SectionTop(k) + SectionHeight(k)
       THEN ActiveAfter({l \in NavLinks : LinkHref(l) = k}, scrollPosition, k + 1)
       ELSE ActiveAfter(active, scrollPosition, k + 1)

\* script.js setActiveLink
setActiveLink(s, y) ==
  [s EXCEPT !.navActive = ActiveAfter(s.navActive, y + NavOffset, 1)]

\* a setActive that clears the active class before it looks for a section
SetActiveClearing(s, y) ==
  [s EXCEPT !.navActive = ActiveAfter({}, y + NavOffset, 1),
            !.navTicking = FALSE]

\* optimized setActive: the same loop, then ticking = false
setActive(s, y) ==
  [s EXCEPT !.navActive = ActiveAfter(s.navActive, y + NavOffset, 1),
            !.navTicking = FALSE]

\* script.js toggleBackToTopButton (module level scroll listener)
toggleBackToTopButton(s, y) ==
  [s EXCEPT !.backShow = y > BackToTopThreshold]

\* an onScroll that drops the event
OnScrollDropping(s) == s

\* onScroll of the header coordinator (both files)
onScroll(s) ==
  IF ~s.ticking
    THEN [s EXCEPT !.raf = Append(@, "updateHeader"), !.ticking = TRUE]
    ELSE s

\* onScroll of initActiveNavOnScroll (optimized only)
onScrollNav(s) ==
  IF ~s.navTicking
    THEN [s EXCEPT !.raf = Append(@, "setActiveLink"), !.navTicking = TRUE]
    ELSE s

\* All "scroll" listeners of one implementation, in registration order.
DispatchScroll(i, s, y) ==
  IF i = "script"
    THEN LET a == Invoke(toggleBackToTopButton(s, y), "toggleBackToTopButton", y)
             b == onScroll(a)
         IN Invoke(setActiveLink(b, y), "setActiveLink", y)
    ELSE onScrollNav(onScroll(s))

\* The animation frame runs the queued requestAnimationFrame callbacks in order.
RECURSIVE RunFrame(_, _, _, _)
RunFrame(i, s, q, y) ==
  IF q = <<>> THEN s
  ELSE LET cb == Head(q)
           t == IF cb = "updateHeader"
                  THEN Invoke(updateHeader(i, s, y), "updateHeader", y)
                  ELSE Invoke(setActive(s, y), "setActiveLink", y)
       IN RunFrame(i, t, Tail(q), y)

\* a toggleMobileMenu that leaves document.body.style.overflow alone
ToggleMobileMenuNoLock(s, show) ==
  [s EXCEPT !.menuOpen = show,
            !.ariaExpanded = IF show THEN "true" ELSE "false",
            !.btnActive = show]

\* toggleMobileMenu(show)
toggleMobileMenu(s, show) ==
  [s EXCEPT !.menuOpen = show,
            !.ariaExpanded = IF show THEN "true" ELSE "false",
            !.btnActive = show,
            !.bodyLocked = show]

\* A step starts by forgetting what the previous step ran; the first step after an
\* animation frame starts a new frame's count.
Begin(s) ==
  [s EXCEPT !.lastRun = {},
            !.calls = IF frameClosed THEN ZeroCalls ELSE @,
            !.mixed = IF frameClosed THEN FALSE ELSE @]

\* State of one implementation after its DOMContentLoaded handler: updateHeader()
\* has run once on the initial offset; nothing is scheduled.
InitScrollState(i, y, aria, active) ==
  LET blank == [scrolled |-> FALSE, hide |-> FALSE, backShow |-> FALSE,
                lastScroll |-> 0, ticking |-> FALSE, navTicking |-> FALSE,
                sample |-> 0, navActive |-> active,
                menuOpen |-> FALSE, ariaExpanded |-> aria,
                btnActive |-> FALSE, bodyLocked |-> FALSE,
                raf |-> <<>>, calls |-> ZeroCalls, lastRun |-> {},
                lastRead |-> y, mixed |-> FALSE, threw |-> {}]
  IN Ran(updateHeader(i, blank, y), "updateHeader")

InitScroll ==
  /\ pageYOffset = 0
  /\ offsetHeight \in {0, DefaultHeaderHeight}
  /\ loaded = FALSE
  /\ frameClosed = FALSE
  /\ scrollsInFrame = 0
  /\ \E aria \in {"none", "false"}, active \in {{}, {1}} :
       sc = [i \in Impls |-> InitScrollState(i, pageYOffset, aria, active)]

\* The page moves to one of the given offsets: one scroll event.
ScrollTo(offsets) ==
  /\ scrollsInFrame < MaxScrollsPerFrame
  /\ \E y \in offsets :
       /\ pageYOffset' = y
       /\ sc' = [i \in Impls |-> DispatchScroll(i, Begin(sc[i]), y)]
  /\ scrollsInFrame' = scrollsInFrame + 1
  /\ frameClosed' = FALSE
  /\ UNCHANGED <<offsetHeight, loaded, notScroll>>

\* The user (or a smooth scroll) moves the page.
Scroll == ScrollTo(ScrollOffsets)

\* The browser renders a frame.
Frame ==
  /\ sc' = [i \in Impls |->
             LET s == Begin(sc[i])
             IN RunFrame(i, [s EXCEPT !.raf = <<>>], s.raf, pageYOffset)]
  /\ frameClosed' = TRUE
  /\ scrollsInFrame' = 0
  /\ UNCHANGED <<pageYOffset, offsetHeight, loaded, notScroll>>

\* window "load": both files run the active-link routine once.
Load ==
  /\ ~loaded
  /\ loaded' = TRUE
  /\ sc' = [i \in Impls |->
             LET s == [sc[i] EXCEPT !.lastRun = {}]
             IN IF i = "script" THEN Ran(setActiveLink(s, pageYOffset), "setActiveLink")
                ELSE Ran(setActive(s, pageYOffset), "setActiveLink")]
  /\ UNCHANGED <<pageYOffset, offsetHeight, frameClosed, scrollsInFrame, notScroll>>

\* click on #mobileMenuBtn (the document listener sees a click inside the button)
MenuButtonClick ==
  /\ sc' = [i \in Impls |->
             LET s == [sc[i] EXCEPT !.lastRun = {}]
                 isExpanded == s.ariaExpanded = "true"
             IN toggleMobileMenu(s, ~isExpanded)]
  /\ UNCHANGED <<pageYOffset, offsetHeight, loaded, frameClosed, scrollsInFrame, notScroll>>

\* click outside #mainNav and #mobileMenuBtn
OutsideMenuClick ==
  /\ sc' = [i \in Impls |->
             LET s == [sc[i] EXCEPT !.lastRun = {}]
             IN IF s.menuOpen THEN toggleMobileMenu(s, FALSE) ELSE s]
  /\ UNCHANGED <<pageYOffset, offsetHeight, loaded, frameClosed, scrollsInFrame, notScroll>>

\* click on a [data-nav-link], inside #mainNav or elsewhere on the page, in a window
\* of the given width: the link's listener runs, then the document's
NavLinkClick ==
  /\ \E innerWidth \in {MobileBreakpoint, MobileBreakpoint + 1}, inside \in BOOLEAN :
       sc' = [i \in Impls |->
               LET s == [sc[i] EXCEPT !.lastRun = {}]
                   t == IF innerWidth <= MobileBreakpoint
                          THEN toggleMobileMenu(s, FALSE) ELSE s
               IN IF ~inside /\ t.menuOpen THEN toggleMobileMenu(t, FALSE) ELSE t]
  /\ UNCHANGED <<pageYOffset, offsetHeight, loaded, frameClosed, scrollsInFrame, notScroll>>

NextScroll ==
  \/ Scroll
  \/ Frame
  \/ Load
  \/ MenuButtonClick
  \/ OutsideMenuClick
  \/ NavLinkClick

StartScroll ==
  InitScroll /\ IdleObserver /\ IdleSlider /\ IdleAccordion /\ IdleCountdown /\ IdleTagger
    /\ IdlePage /\ IdleHeight

SpecScroll == StartScroll /\ [][NextScroll]_vars

(***************************************************************************)
(* The scroll coordinator when a DOM call inside a frame callback throws.  *)
(* Neither file wraps updateHeader, setActive or their body in try/catch,  *)
(* so the exception leaves the callback at the throwing statement: the     *)
(* statements before it have run, those after it have not.  The browser    *)
(* reports the exception and goes on with the next queued callback.        *)
(***************************************************************************)
\* The DOM calls of updateHeader: header.classList.toggle("scrolled"), the
\* hide/show block, backToTopBtn.classList.toggle("show").
ThrowPoints == {"scrolled", "hide", "backToTop"}

\* updateHeader (either file) when the DOM call `at` throws: "lastScroll = ..." and
\* "ticking = false" are the last two statements and are never reached.
UpdateHeaderThrows(i, s, y, at) ==
  LET currentScroll == IF i = "script" THEN y ELSE (IF y # 0 THEN y ELSE 0)
      hh == HeaderHeight(i)
      a == IF at = "scrolled" THEN s
           ELSE [s EXCEPT !.scrolled = currentScroll > ScrolledThreshold]
      b == IF at \in {"scrolled", "hide"} THEN a
           ELSE [a EXCEPT !.hide = IF ~s.menuOpen
                                     THEN (currentScroll > s.lastScroll /\ currentScroll > hh)
                                     ELSE @]
  IN [b EXCEPT !.sample = currentScroll, !.threw = @ \cup {"updateHeader"}]

\* optimized setActive when section.offsetTop of the first section throws: no link
\* is touched and "ticking = false", the last statement, is never reached.
SetActiveThrows(s, y) ==
  [s EXCEPT !.threw = @ \cup {"setActiveLink"}]

\* An animation frame in which every queued callback named victim throws.
RECURSIVE RunFrameThrowing(_, _, _, _, _, _)
RunFrameThrowing(i, s, q, y, victim, at) ==
  IF q = <<>> THEN s
  ELSE LET cb == Head(q)
           u == [Sample(s, y) EXCEPT !.calls[cb] = @ + 1]
           t == IF cb # victim
                  THEN IF cb = "updateHeader"
                         THEN Invoke(updateHeader(i, s, y), "updateHeader", y)
                         ELSE Invoke(setActive(s, y), "setActiveLink", y)
                  ELSE IF cb = "updateHeader"
                         THEN UpdateHeaderThrows(i, u, y, at)
                         ELSE SetActiveThrows(u, y)
       IN RunFrameThrowing(i, t, Tail(q), y, victim, at)

Queued(s, r) == \E n \in 1..Len(s.raf) : s.raf[n] = r

\* The browser renders a frame and a queued callback throws.
FrameThrows ==
  /\ \E victim \in {"updateHeader", "setActiveLink"}, at \in ThrowPoints :
       /\ \E i \in Impls : Queued(sc[i], victim)
       /\ victim = "setActiveLink" => at = "scrolled"
       /\ sc' = [i \in Impls |->
                  LET s == Begin(sc[i])
                  IN RunFrameThrowing(i, [s EXCEPT !.raf = <<>>], s.raf, pageYOffset,
                                      victim, at)]
  /\ frameClosed' = TRUE
  /\ scrollsInFrame' = 0
  /\ UNCHANGED <<pageYOffset, offsetHeight, loaded, notScroll>>

\* The page is scrolled between its top, the first section boundary and a position
\* below the back-to-top threshold.
FaultOffsets == {0, ScrolledThreshold, BackToTopThreshold + 1}

ScrollAround == ScrollTo(FaultOffsets)

NextScrollFault ==
  \/ ScrollAround
  \/ Frame
  \/ FrameThrows

SpecScrollFault == StartScroll /\ [][NextScrollFault]_vars

(***************************************************************************)
(* The header coordinator and the mobile menu on their own: scroll events, *)
(* animation frames and the three kinds of click.  The markup may give the *)
(* menu button any aria-expanded; the browser keeps rendering frames.      *)
(***************************************************************************)
CoordOffsets == FaultOffsets \cup {-1, DefaultHeaderHeight + 1}

InitCoordinator ==
  /\ pageYOffset = 0
  /\ offsetHeight \in {0, DefaultHeaderHeight}
  /\ loaded = FALSE
  /\ frameClosed = FALSE
  /\ scrollsInFrame = 0
  /\ \E aria \in {"none", "false", "true"} :
       sc = [i \in Impls |-> InitScrollState(i, pageYOffset, aria, {})]

ScrollNear == ScrollTo(CoordOffsets)

NextCoordinator ==
  \/ ScrollNear
  \/ Frame
  \/ MenuButtonClick
  \/ OutsideMenuClick
  \/ NavLinkClick

StartCoordinator ==
  InitCoordinator /\ IdleObserver /\ IdleSlider /\ IdleAccordion /\ IdleCountdown
    /\ IdleTagger /\ IdlePage /\ IdleHeight

\* requestAnimationFrame callbacks are run at the next frame the browser renders.
SpecCoordinator == StartCoordinator /\ [][NextCoordinator]_vars /\ WF_vars(Frame)

(***************************************************************************)
(* VISIBILITY OBSERVERS: lazy images, animate-on-scroll                    *)
(***************************************************************************)
Images == 1..NumImages
AosEls == 1..NumAos

\* Markup of a lazy image before any script ran: its src ("url" or empty), an
\* optional data-src and an optional data-loaded="true".
ImgMarkup == [src : {"url", ""}, dataSrc : {"none", "url"}, dataLoaded : {"none", "true"}]

\* lazyImages.forEach of initLazyLoading, script.js: keep the real src in data-src,
\* show a placeholder, observe.
InitImageScript(m) ==
  [src |-> IF m.dataSrc = "none" THEN "placeholder" ELSE m.src,
   dataSrc |-> IF m.dataSrc = "none" THEN m.src ELSE m.dataSrc,
   dataLoaded |-> m.dataLoaded,
   observed |-> TRUE, registered |-> TRUE,
   loads |-> 0, pending |-> FALSE]

\* lazyImages.forEach of initLazyLoading, optimized: the placeholder only replaces
\* an empty src.
InitImageOptimized(m) ==
  [src |-> IF m.src = "" THEN "placeholder" ELSE m.src,
   dataSrc |-> IF m.dataSrc = "none" THEN m.src ELSE m.dataSrc,
   dataLoaded |-> m.dataLoaded,
   observed |-> TRUE, registered |-> TRUE,
   loads |-> 0, pending |-> FALSE]

\* Without IntersectionObserver initLazyLoading returns at once (both files).
UntouchedImage(m) ==
  [src |-> m.src, dataSrc |-> m.dataSrc, dataLoaded |-> m.dataLoaded,
   observed |-> FALSE, registered |-> FALSE,
   loads |-> 0, pending |-> FALSE]

initLazyLoading(i, m) ==
  IF ~hasIO THEN UntouchedImage(m)
  ELSE IF i = "script" THEN InitImageScript(m) ELSE InitImageOptimized(m)

\* One entry of the lazy-image observer callback, script.js.
\* e is "in" (isIntersecting) or "out".
LazyEntryScript(im, e) ==
  IF e # "in" THEN im
  ELSE IF im.dataLoaded = "true" THEN [im EXCEPT !.observed = FALSE]
  ELSE [im EXCEPT !.src = IF im.dataSrc \notin {"none", ""} THEN im.dataSrc ELSE @,
                  !.loads = @ + 1,
                  !.pending = TRUE,
                  !.observed = FALSE]

\* The optimized callback without its isIntersecting test.
LazyEntryOptimizedAnyEntry(im, e) ==
  IF im.dataLoaded = "true" THEN [im EXCEPT !.observed = FALSE]
  ELSE [im EXCEPT !.src = IF im.dataSrc \notin {"none", ""} THEN im.dataSrc ELSE @,
                  !.loads = @ + 1,
                  !.pending = TRUE,
                  !.observed = FALSE]

\* One entry of the lazy-image observer callback, optimized.
LazyEntryOptimized(im, e) ==
  IF e # "in" THEN im
  ELSE IF im.dataLoaded = "true" THEN [im EXCEPT !.observed = FALSE]
  ELSE [im EXCEPT !.src = IF im.dataSrc \notin {"none", ""} THEN im.dataSrc ELSE @,
                  !.loads = @ + 1,
                  !.pending = TRUE,
                  !.observed = FALSE]

lazyEntry(i, im, e) ==
  IF i = "script" THEN LazyEntryScript(im, e) ELSE LazyEntryOptimized(im, e)

\* img.onload / img.onerror, attached by the callback
imgOnload(im) == [im EXCEPT !.dataLoaded = "true", !.dataSrc = "none", !.pending = FALSE]
imgOnerror(im) == [im EXCEPT !.dataLoaded = "error", !.pending = FALSE]

\* State of a [data-aos] element after initialization.
\* script.js: animateOnScrollObserver is not defined in that file, so the loop at the
\* end of the DOMContentLoaded handler throws a ReferenceError on its first element:
\* that element got aos-init, nothing is observed.
\* optimized: the AOS library takes over when present; else the elements are observed,
\* or revealed at once when there is no IntersectionObserver.
initAos(i, el) ==
  IF i = "script"
    THEN [aosInit |-> el = 1, animate |-> FALSE, adds |-> 0,
          observed |-> FALSE, registered |-> FALSE]
  ELSE IF hasAOS
    THEN [aosInit |-> FALSE, animate |-> FALSE, adds |-> 0,
          observed |-> FALSE, registered |-> FALSE]
  ELSE IF hasIO
    THEN [aosInit |-> TRUE, animate |-> FALSE, adds |-> 0,
          observed |-> TRUE, registered |-> TRUE]
  ELSE [aosInit |-> FALSE, animate |-> TRUE, adds |-> 1,
        observed |-> FALSE, registered |-> FALSE]

\* a callback that stops observing on any entry, intersecting or not
AosEntryUnobserveAlways(a, e) ==
  IF e = "in"
    THEN [a EXCEPT !.animate = TRUE, !.adds = @ + 1, !.observed = FALSE]
    ELSE [a EXCEPT !.observed = FALSE]

\* One entry of the animateOnScrollObserver callback (optimized).
aosEntry(a, e) ==
  IF e = "in"
    THEN [a EXCEPT !.animate = TRUE, !.adds = @ + 1, !.observed = FALSE]
    ELSE a

InitObserver ==
  /\ hasIO \in BOOLEAN
  /\ hasAOS \in BOOLEAN
  /\ \E m \in [Images -> ImgMarkup] :
       img = [i \in Impls |-> [k \in Images |-> initLazyLoading(i, m[k])]]
  /\ aos = [i \in Impls |-> [k \in AosEls |-> initAos(i, k)]]
  /\ seenIn = [i \in Impls |-> [images |-> {}, aosEls |-> {}]]

\* The lazy-image observer delivers a batch: one entry ("in" or "out") for each of
\* some targets, at most one entry per target.  An implementation gets the entries of
\* the targets it observes.
ReportImages ==
  /\ hasIO
  /\ \E batch \in [Images -> {"none", "in", "out"}] :
       /\ \E k \in Images : batch[k] # "none" /\ \E i \in Impls : img[i][k].observed
       /\ img' = [i \in Impls |-> [k \in Images |->
                   IF img[i][k].observed /\ batch[k] # "none"
                     THEN lazyEntry(i, img[i][k], batch[k])
                     ELSE img[i][k]]]
       /\ seenIn' = [i \in Impls |-> [seenIn[i] EXCEPT !.images =
                      @ \cup {k \in Images : img[i][k].observed /\ batch[k] = "in"}]]
  /\ UNCHANGED <<hasIO, hasAOS, aos, notObserver>>

\* The animate-on-scroll observer delivers a batch.
ReportAos ==
  /\ hasIO
  /\ \E batch \in [AosEls -> {"none", "in", "out"}] :
       /\ \E k \in AosEls : batch[k] # "none" /\ \E i \in Impls : aos[i][k].observed
       /\ aos' = [i \in Impls |-> [k \in AosEls |->
                   IF aos[i][k].observed /\ batch[k] # "none"
                     THEN aosEntry(aos[i][k], batch[k])
                     ELSE aos[i][k]]]
       /\ seenIn' = [i \in Impls |-> [seenIn[i] EXCEPT !.aosEls =
                      @ \cup {k \in AosEls : aos[i][k].observed /\ batch[k] = "in"}]]
  /\ UNCHANGED <<hasIO, hasAOS, img, notObserver>>

\* The browser finishes loading an image whose src the callback set.
ImageLoaded ==
  /\ \E k \in Images :
       /\ \E i \in Impls : img[i][k].pending
       /\ img' = [i \in Impls |-> [img[i] EXCEPT ![k] =
                   IF @.pending THEN imgOnload(@) ELSE @]]
  /\ UNCHANGED <<hasIO, hasAOS, aos, seenIn, notObserver>>

\* The browser fails to load an image whose src the callback set.
ImageFailed ==
  /\ \E k \in Images :
       /\ \E i \in Impls : img[i][k].pending
       /\ img' = [i \in Impls |-> [img[i] EXCEPT ![k] =
                   IF @.pending THEN imgOnerror(@) ELSE @]]
  /\ UNCHANGED <<hasIO, hasAOS, aos, seenIn, notObserver>>

NextObserver ==
  \/ ReportImages
  \/ ReportAos
  \/ ImageLoaded
  \/ ImageFailed

StartObserver ==
  InitObserver /\ IdleScroll /\ IdleSlider /\ IdleAccordion /\ IdleCountdown /\ IdleTagger
    /\ IdlePage /\ IdleHeight

SpecObserver == StartObserver /\ [][NextObserver]_vars

(***************************************************************************)
(* HERO IMAGE SLIDER                                                       *)
(***************************************************************************)
\* An interval timer is known by whether the variable slideTimer still names a live
\* timer (handleLive); live counts the live timers whose callback is nextSlide,
\* those that slideTimer no longer names included.

\* setInterval(nextSlide, 7000); slideTimer = <the new id>
setInterval(t) == [t EXCEPT !.live = @ + 1, !.handleLive = TRUE]

\* clearInterval(slideTimer): clears the timer slideTimer names, if it is live
clearInterval(t) ==
  IF t.handleLive THEN [t EXCEPT !.live = @ - 1, !.handleLive = FALSE] ELSE t

\* showImage(index), script.js: remove "active" everywhere, add it at index
ShowImageScript(active, n, index) ==
  {k \in 0..(n - 1) : k = index}

\* a showImage that never removes the class
ShowImageOptimizedKeep(active, n, index) ==
  active \cup {k \in 0..(n - 1) : k = index}

\* showImage(index), optimized: classList.toggle("active", i === index)
ShowImageOptimized(active, n, index) ==
  {k \in 0..(n - 1) : k = index}

showImage(i, active, n, index) ==
  IF i = "script" THEN ShowImageScript(active, n, index)
  ELSE ShowImageOptimized(active, n, index)

\* the index arithmetic of nextSlide without the wrap-around
NextIndexNoWrap(index, n) == index + 1

\* currentIndex = (currentIndex + 1) % images.length
NextIndex(index, n) == (index + 1) % n

\* nextSlide (both files)
nextSlide(i, t, n) ==
  LET idx == NextIndex(t.currentIndex, n)
  IN [t EXCEPT !.currentIndex = idx,
               !.active = showImage(i, @, n, idx),
               !.trail = Append(@, idx)]

\* optimized start / stop
start(t) == setInterval(IF t.handleLive THEN clearInterval(t) ELSE t)
stop(t) == IF t.handleLive THEN clearInterval(t) ELSE t

\* mouseenter on the slider
onMouseEnter(i, t) == IF i = "script" THEN clearInterval(t) ELSE stop(t)

\* a mouseleave listener that does not restart the timer
OnMouseLeaveNoRestart(i, t) == t

\* mouseleave on the slider
onMouseLeave(i, t) == IF i = "script" THEN setInterval(t) ELSE start(t)

\* visibilitychange on the document
onVisibilityChange(i, t, hidden) ==
  IF i = "script"
    THEN IF hidden THEN clearInterval(t) ELSE setInterval(t)
    ELSE IF hidden THEN stop(t) ELSE start(t)

\* initHeroImageSlider: showImage(0) and the first timer.  trail records the
\* index after initialization and after every advance.
InitSliderState(i, n) ==
  setInterval([currentIndex |-> 0,
               active |-> showImage(i, {}, n, 0),
               live |-> 0,
               handleLive |-> FALSE,
               trail |-> <<0>>])

\* The page may be parsed in a background tab (document.hidden); the pointer's
\* first mouseenter comes after the listeners are attached.
InitSlider ==
  /\ numSlides \in 2..MaxSlides
  /\ hovered = FALSE
  /\ docHidden \in BOOLEAN
  /\ sl = [i \in Impls |-> InitSliderState(i, numSlides)]

FewTimers == \A i \in Impls : sl[i].live < MaxLiveTimers

MouseEnter ==
  /\ ~hovered
  /\ hovered' = TRUE
  /\ sl' = [i \in Impls |-> onMouseEnter(i, sl[i])]
  /\ UNCHANGED <<numSlides, docHidden, notSlider>>

MouseLeave ==
  /\ hovered
  /\ FewTimers
  /\ hovered' = FALSE
  /\ sl' = [i \in Impls |-> onMouseLeave(i, sl[i])]
  /\ UNCHANGED <<numSlides, docHidden, notSlider>>

VisibilityChange ==
  /\ docHidden => FewTimers
  /\ docHidden' = ~docHidden
  /\ sl' = [i \in Impls |-> onVisibilityChange(i, sl[i], docHidden')]
  /\ UNCHANGED <<numSlides, hovered, notSlider>>

\* One live interval timer of implementation i fires.
SlideTickOf(i) ==
  /\ sl[i].live > 0
  /\ Len(sl[i].trail) <= MaxAdvances
  /\ sl' = [sl EXCEPT ![i] = nextSlide(i, @, numSlides)]
  /\ UNCHANGED <<numSlides, hovered, docHidden, notSlider>>

SlideTick == \E i \in Impls : SlideTickOf(i)

NextSlider ==
  \/ MouseEnter
  \/ MouseLeave
  \/ VisibilityChange
  \/ SlideTick

StartSlider ==
  InitSlider /\ IdleScroll /\ IdleObserver /\ IdleAccordion /\ IdleCountdown /\ IdleTagger
    /\ IdlePage /\ IdleHeight

SpecSlider == StartSlider /\ [][NextSlider]_vars

\* A live interval timer keeps firing: the browser runs its callback every 7000 ms
\* for as long as the timer is not cleared.
SpecSliderFair ==
  StartSlider /\ [][NextSlider]_vars /\ \A i \in Impls : WF_vars(SlideTickOf(i))

(***************************************************************************)
(* ACCORDION                                                               *)
(***************************************************************************)
\* Every item has a header and a panel; its icon (.fa-plus / .fa-minus) is optional.
\* An item is a record: expanded (the header's aria-expanded: "none" when the
\* attribute is absent), maxHeight ("px" for scrollHeight + "px", "" when cleared),
\* active (the item's class), icon ("none", "plus" or "minus").
Items == 1..NumItems

ItemMarkup == [expanded : {"none", "false", "true"}, icon : {"none", "plus"}]

\* a closePanel that leaves the class active on the item
ClosePanelKeepActive(it) ==
  [it EXCEPT !.expanded = "false",
             !.maxHeight = "",
             !.icon = IF @ = "none" THEN "none" ELSE "plus"]

\* closePanel(item)
closePanel(it) ==
  [it EXCEPT !.expanded = "false",
             !.maxHeight = "",
             !.active = FALSE,
             !.icon = IF @ = "none" THEN "none" ELSE "plus"]

\* openPanel(item) without the loop that closes the other items
OpenPanelKeepOthers(a, item) ==
  [a EXCEPT ![item] = [@ EXCEPT !.expanded = "true",
                                !.maxHeight = "px",
                                !.active = TRUE,
                                !.icon = IF @ = "none" THEN "none" ELSE "minus"]]

\* openPanel(item): close the others, then expand this one
openPanel(a, item) ==
  [k \in Items |->
     IF k # item THEN closePanel(a[k])
     ELSE [a[k] EXCEPT !.expanded = "true",
                       !.maxHeight = "px",
                       !.active = TRUE,
                       !.icon = IF @ = "none" THEN "none" ELSE "minus"]]

\* toggleItem(item)
toggleItem(a, item) ==
  LET isExpanded == a[item].expanded = "true"
  IN IF isExpanded THEN [a EXCEPT ![item] = closePanel(@)] ELSE openPanel(a, item)

\* The initialization loop: each item follows its own aria-expanded attribute.
InitItem(m) ==
  IF m.expanded = "true"
    THEN [expanded |-> m.expanded, maxHeight |-> "px", active |-> TRUE,
          icon |-> IF m.icon = "none" THEN "none" ELSE "minus"]
    ELSE [expanded |-> m.expanded, maxHeight |-> "", active |-> FALSE,
          icon |-> IF m.icon = "none" THEN "none" ELSE "plus"]

\* The document click listener for clicks outside the accordion.
\* script.js registers it outside the block that declares closePanel, so calling
\* closePanel there throws a ReferenceError on the first item: nothing is closed.
\* optimized closes every item.
onOutsideClick(i, a) ==
  IF i = "script" THEN a ELSE [k \in Items |-> closePanel(a[k])]

OpenItems(a) == {k \in Items : a[k].expanded = "true"}

\* What an event did: "open" or "close" of an item by toggleItem, "outside" for a
\* click outside; before holds the items that were open before the event.
Did(a, kind, item) == [kind |-> kind, item |-> item, before |-> OpenItems(a)]

InitAccordion ==
  /\ \E m \in [Items -> ItemMarkup] :
       acc = [i \in Impls |-> [k \in Items |-> InitItem(m[k])]]
  /\ accLast = [i \in Impls |-> [kind |-> "init", item |-> 0, before |-> {}]]

Toggled(i, item) ==
  Did(acc[i], IF acc[i][item].expanded = "true" THEN "close" ELSE "open", item)

\* click on an .accordion-header (or an element inside it)
HeaderClick ==
  /\ \E item \in Items :
       /\ acc' = [i \in Impls |-> toggleItem(acc[i], item)]
       /\ accLast' = [i \in Impls |-> Toggled(i, item)]
  /\ UNCHANGED notAccordion

\* Enter or Space on a focused .accordion-header
HeaderKey ==
  /\ \E item \in Items, key \in {"Enter", " ", "Spacebar"} :
       /\ acc' = [i \in Impls |-> toggleItem(acc[i], item)]
       /\ accLast' = [i \in Impls |-> Toggled(i, item)]
  /\ UNCHANGED notAccordion

\* click anywhere outside the accordion
OutsideAccordionClick ==
  /\ acc' = [i \in Impls |-> onOutsideClick(i, acc[i])]
  /\ accLast' = [i \in Impls |-> Did(acc[i], "outside", 0)]
  /\ UNCHANGED notAccordion

NextAccordion ==
  \/ HeaderClick
  \/ HeaderKey
  \/ OutsideAccordionClick

StartAccordion ==
  InitAccordion /\ IdleScroll /\ IdleObserver /\ IdleSlider /\ IdleCountdown /\ IdleTagger
    /\ IdlePage /\ IdleHeight

SpecAccordion == StartAccordion /\ [][NextAccordion]_vars

(***************************************************************************)
(* COUNTDOWN                                                               *)
(***************************************************************************)
SecondMs == 1000
MinuteMs == 1000 * 60
HourMs == 1000 * 60 * 60
DayMs == 1000 * 60 * 60 * 24
\* const fourDaysMs = 4 * 24 * 60 * 60 * 1000
fourDaysMs == 4 * 24 * 60 * 60 * 1000

\* The data-countdown-date attribute: absent ("none"), a string Date cannot parse
\* ("invalid"), or an ISO-8601 string ("iso") naming the instant ms.
NoAttr == [kind |-> "none", ms |-> 0]
InvalidAttr == [kind |-> "invalid", ms |-> 0]

\* new Date(ms).toISOString(): millisecond precision, so the instant is kept
toISOString(ms) == [kind |-> "iso", ms |-> ms]

\* new Date(str).getTime(): NaN for an unparsable string
getTime(attr) ==
  IF attr.kind = "iso" THEN [nan |-> FALSE, v |-> attr.ms] ELSE [nan |-> TRUE, v |-> 0]

\* JavaScript's %: the remainder has the sign of the dividend
JsRem(a, b) == IF a >= 0 THEN a % b ELSE -((-a) % b)

\* Math.floor(a / b) for b > 0
Floor(a, b) == a \div b

\* the digits computed without the remainders: hours, minutes and seconds count the
\* whole remaining time
DigitsNoRemainder(distance) ==
  [kind |-> "num",
   days |-> Floor(distance, DayMs),
   hours |-> Floor(distance, HourMs),
   minutes |-> Floor(distance, MinuteMs),
   seconds |-> Floor(distance, SecondMs)]

\* The digits written by updateCountdown for a remaining time of distance ms.
Digits(distance) ==
  [kind |-> "num",
   days |-> Floor(distance, DayMs),
   hours |-> Floor(JsRem(distance, DayMs), HourMs),
   minutes |-> Floor(JsRem(distance, HourMs), MinuteMs),
   seconds |-> Floor(JsRem(distance, MinuteMs), SecondMs)]

\* Arithmetic on NaN gives NaN: all four digits read "NaN".
NaNDigits == [kind |-> "nan", days |-> 0, hours |-> 0, minutes |-> 0, seconds |-> 0]
NoDigits == [kind |-> "none", days |-> 0, hours |-> 0, minutes |-> 0, seconds |-> 0]

\* script.js updateCountdown without the "distance < 0" reset
UpdateCountdownScriptNoReset(c, t) ==
  IF c.attr.kind = "none" THEN [c EXCEPT !.last = [ran |-> FALSE, elapsed |-> FALSE]]
  ELSE
    LET countDownDate == getTime(c.attr)
        elapsed == ~countDownDate.nan /\ countDownDate.v < t
    IN IF countDownDate.nan
       THEN [c EXCEPT !.shown = NaNDigits, !.last = [ran |-> TRUE, elapsed |-> FALSE]]
       ELSE [c EXCEPT !.shown = Digits(countDownDate.v - t),
                      !.pulse = @ \/ Floor(countDownDate.v - t, DayMs) < 1,
                      !.last = [ran |-> TRUE, elapsed |-> elapsed]]

\* script.js updateCountdown at time t.  With an unparsable date the distance is
\* NaN: "NaN < 0" is false, the digits are written as NaN, "NaN < 1" is false.
\* last records whether the routine got past its early returns and whether the
\* stored target was earlier than t.
UpdateCountdownScript(c, t) ==
  IF c.attr.kind = "none" THEN [c EXCEPT !.last = [ran |-> FALSE, elapsed |-> FALSE]]
  ELSE
    LET countDownDate == getTime(c.attr)
        elapsed == ~countDownDate.nan /\ countDownDate.v < t
    IN IF countDownDate.nan
       THEN [c EXCEPT !.shown = NaNDigits, !.last = [ran |-> TRUE, elapsed |-> FALSE]]
       ELSE IF countDownDate.v - t < 0
       THEN [c EXCEPT !.attr = toISOString(t + fourDaysMs),
                      !.last = [ran |-> TRUE, elapsed |-> elapsed]]
       ELSE [c EXCEPT !.shown = Digits(countDownDate.v - t),
                      !.pulse = @ \/ Floor(countDownDate.v - t, DayMs) < 1,
                      !.last = [ran |-> TRUE, elapsed |-> elapsed]]

\* optimized updateCountdown at time t
UpdateCountdownOptimized(c, t) ==
  IF c.attr.kind = "none" THEN [c EXCEPT !.last = [ran |-> FALSE, elapsed |-> FALSE]]
  ELSE
    LET countDownDate == getTime(c.attr)
        elapsed == ~countDownDate.nan /\ countDownDate.v < t
    IN IF countDownDate.nan \/ countDownDate.v < t
       THEN [c EXCEPT !.attr = toISOString(t + fourDaysMs),
                      !.last = [ran |-> TRUE, elapsed |-> elapsed]]
       ELSE [c EXCEPT !.shown = Digits(countDownDate.v - t),
                      !.pulse = @ \/ Floor(countDownDate.v - t, DayMs) < 1,
                      !.last = [ran |-> TRUE, elapsed |-> elapsed]]

updateCountdown(i, c, t) ==
  IF i = "script" THEN UpdateCountdownScript(c, t) ELSE UpdateCountdownOptimized(c, t)

\* "if the container has no data-countdown-date, set it 4 days ahead":
\* script.js does it in the load handler, optimized at DOMContentLoaded.
defaultTarget(c, t) ==
  IF c.attr.kind = "none" THEN [c EXCEPT !.attr = toISOString(t + fourDaysMs)] ELSE c

\* Targets found in the markup, as offsets from the moment the page is parsed.
MarkupTargets ==
  { toISOString(ms) : ms \in {-1, 0, 1500, DayMs + 500, fourDaysMs} }
    \cup {NoAttr, InvalidAttr}

\* Time that passes before the load event / between two interval ticks.
LoadDelays == {0, SecondMs}
TickDelays == {SecondMs, SecondMs + 1, DayMs}

InitCountdown ==
  /\ now = 0
  /\ cdStarted = FALSE
  /\ ticks = 0
  /\ \E a \in MarkupTargets :
       cd = [i \in Impls |->
              LET c == [attr |-> a, shown |-> NoDigits, pulse |-> FALSE,
                        last |-> [ran |-> FALSE, elapsed |-> FALSE]]
              IN IF i = "optimized" THEN defaultTarget(c, now) ELSE c]

\* window "load": default target (script.js), first updateCountdown, setInterval
CountdownLoad ==
  /\ ~cdStarted
  /\ cdStarted' = TRUE
  /\ \E d \in LoadDelays :
       /\ now' = now + d
       /\ cd' = [i \in Impls |->
                  updateCountdown(i, IF i = "script" THEN defaultTarget(cd[i], now')
                                     ELSE cd[i], now')]
  /\ UNCHANGED <<ticks, notCountdown>>

\* the 1000 ms interval fires
CountdownTick ==
  /\ cdStarted
  /\ ticks < MaxTicks
  /\ ticks' = ticks + 1
  /\ \E d \in TickDelays :
       /\ now' = now + d
       /\ cd' = [i \in Impls |-> updateCountdown(i, cd[i], now')]
  /\ UNCHANGED <<cdStarted, notCountdown>>

NextCountdown ==
  \/ CountdownLoad
  \/ CountdownTick

StartCountdown ==
  InitCountdown /\ IdleScroll /\ IdleObserver /\ IdleSlider /\ IdleAccordion /\ IdleTagger
    /\ IdlePage /\ IdleHeight

SpecCountdown == StartCountdown /\ [][NextCountdown]_vars

(***************************************************************************)
(* OUTBOUND LINK TAGGER                                                    *)
(***************************************************************************)
\* A query string is a sequence of pairs [k, v].  An href is a record: kind is
\* "none" (no href attribute), "abs" (an absolute URL, which new URL() parses) or
\* "rel" (anything new URL() rejects without a base, such as //rqgstore.com/x);
\* partner tells whether the text contains "rqgstore.com"; query is its query string.
\* rel is the sequence of tokens of the rel attribute (empty when absent).
Null == "<null>"

\* the keys of trackingParams, in the order the object literal lists them
TrackingKeys ==
  <<"gclid", "gbraid", "wbraid", "utm_source", "utm_medium", "utm_campaign",
    "utm_term", "utm_content">>

\* the default params object of appendTrackingParams
DefaultParams ==
  << [k |-> "utm_source", v |-> "landing"],
     [k |-> "utm_medium", v |-> "cta"],
     [k |-> "utm_campaign", v |-> "iptv_sa"] >>

\* Query keys that occur in the page URL, and their values.
PageKeys == {"utm_campaign", "gclid", "ref"}
PageVals == {"summer", ""}
\* Query parameters that occur in anchors of the markup.
LinkPairs == { [k |-> key, v |-> "google"] : key \in {"utm_source", "utm_campaign", "ref"} }

\* params.get(key) on the page URL
PageGet(key) == IF key \in PageKeys THEN pageParams[key] ELSE Null

\* searchParams.get(key): the first value of key, or null
Get(q, key) ==
  IF \E n \in 1..Len(q) : q[n].k = key
    THEN q[CHOOSE n \in 1..Len(q) : q[n].k = key /\ \A m \in 1..(n - 1) : q[m].k # key].v
    ELSE Null

\* getUrlParams(): the recognized keys the page URL carries, nulls deleted
RECURSIVE ParamsFrom(_)
ParamsFrom(n) ==
  IF n > Len(TrackingKeys) THEN <<>>
  ELSE IF PageGet(TrackingKeys[n]) = Null THEN ParamsFrom(n + 1)
  ELSE <<[k |-> TrackingKeys[n], v |-> PageGet(TrackingKeys[n])]>> \o ParamsFrom(n + 1)

getUrlParams == ParamsFrom(1)

\* searchParams.set(key, value): the first pair of that key takes the value, the
\* later ones are removed; a new key is appended
RECURSIVE SetFrom(_, _, _, _)
SetFrom(q, key, value, found) ==
  IF q = <<>> THEN <<>>
  ELSE IF Head(q).k = key
    THEN IF found THEN SetFrom(Tail(q), key, value, TRUE)
         ELSE <<[k |-> key, v |-> value]>> \o SetFrom(Tail(q), key, value, TRUE)
    ELSE <<Head(q)>> \o SetFrom(Tail(q), key, value, found)

SearchParamsSet(q, key, value) ==
  IF \E n \in 1..Len(q) : q[n].k = key
    THEN SetFrom(q, key, value, FALSE)
    ELSE Append(q, [k |-> key, v |-> value])

\* Object.keys(params).forEach(key => urlObj.searchParams.set(key, params[key]))
RECURSIVE SetAll(_, _)
SetAll(q, params) ==
  IF params = <<>> THEN q
  ELSE SetAll(SearchParamsSet(q, Head(params).k, Head(params).v), Tail(params))

\* the same loop written with searchParams.append instead of set
MergedQueryAppend(q, params) ==
  q \o (IF params = <<>> THEN DefaultParams ELSE params)

\* appendTrackingParams writing the default triple before the page's parameters,
\* whether or not the page has any
MergedQueryDefaultsFirst(q, params) ==
  SetAll(SetAll(q, DefaultParams), params)

\* The query appendTrackingParams leaves in a URL that parsed.
MergedQuery(q, params) ==
  SetAll(q, IF params = <<>> THEN DefaultParams ELSE params)

\* a rel update that appends the token without looking for it first
WithNoopenerAlways(rel) == Append(rel, "noopener")

\* rel after "if (!currentRel.includes('noopener')) setAttribute(rel, currentRel + ' noopener')"
WithNoopener(rel) ==
  IF \E n \in 1..Len(rel) : rel[n] = "noopener" THEN rel ELSE Append(rel, "noopener")

\* The outboundLinks.forEach body, script.js: new URL() throws on a "rel" href, the
\* catch around the whole body logs it, and neither href nor rel is written.
TagLinkScript(a, params) ==
  IF ~a.dataOut \/ a.href.kind = "none" \/ ~a.href.partner THEN a
  ELSE IF a.href.kind # "abs" THEN a
  ELSE [a EXCEPT !.href.query = MergedQuery(@, params),
                 !.rel = WithNoopener(@)]

\* the optimized body without its test for the partner domain
TagLinkOptimizedAnyDomain(a, params) ==
  IF ~a.dataOut \/ a.href.kind = "none" THEN a
  ELSE IF a.href.kind # "abs" THEN [a EXCEPT !.rel = WithNoopener(@)]
  ELSE [a EXCEPT !.href.query = MergedQuery(@, params),
                 !.rel = WithNoopener(@)]

\* The outboundLinks.forEach body, optimized: appendTrackingParams catches the
\* error itself and returns the url unchanged; rel is still written.
TagLinkOptimized(a, params) ==
  IF ~a.dataOut \/ a.href.kind = "none" \/ ~a.href.partner THEN a
  ELSE IF a.href.kind # "abs" THEN [a EXCEPT !.rel = WithNoopener(@)]
  ELSE [a EXCEPT !.href.query = MergedQuery(@, params),
                 !.rel = WithNoopener(@)]

tagLink(i, a, params) ==
  IF i = "script" THEN TagLinkScript(a, params) ELSE TagLinkOptimized(a, params)

\* Sequences over S of length at most n
RECURSIVE SeqsUpTo(_, _)
SeqsUpTo(S, n) ==
  IF n = 0 THEN {<<>>}
  ELSE LET shorter == SeqsUpTo(S, n - 1)
       IN shorter \cup {Append(q, x) : q \in shorter, x \in S}

Hrefs ==
  {[kind |-> "none", partner |-> FALSE, query |-> <<>>]}
    \cup [kind : {"abs", "rel"}, partner : BOOLEAN, query : SeqsUpTo(LinkPairs, MaxLinkParams)]

Rels == {<<>>, <<"nofollow">>, <<"noopener", "noreferrer">>}

Anchors == [dataOut : BOOLEAN, href : Hrefs, rel : Rels]

InitTagger ==
  /\ pageParams \in [PageKeys -> PageVals \cup {Null}]
  /\ origLink \in Anchors
  /\ tagRuns = 0
  /\ link = [i \in Impls |-> origLink]

\* The DOMContentLoaded handler of the tagger.
TagLinks ==
  /\ tagRuns < MaxTagRuns
  /\ tagRuns' = tagRuns + 1
  /\ link' = [i \in Impls |-> tagLink(i, link[i], getUrlParams)]
  /\ UNCHANGED <<pageParams, origLink, notTagger>>

NextTagger ==
  \/ TagLinks

StartTagger ==
  InitTagger /\ IdleScroll /\ IdleObserver /\ IdleSlider /\ IdleAccordion /\ IdleCountdown
    /\ IdlePage /\ IdleHeight

SpecTagger == StartTagger /\ [][NextTagger]_vars

(***************************************************************************)
(* PAGE STRUCTURE: optional elements                                       *)
(***************************************************************************)
\* Elements a page may lack: #header, #backToTop, .accordion, #heroImageSlider,
\* .cta-timer, the digit elements #days #hours #minutes #seconds, and the
\* navigation (#mainNav with #mobileMenuBtn).  The slider and the accordion, when
\* present, have slides and items.
Optional == {"header", "backToTop", "accordion", "slider", "ctaTimer", "digits", "nav"}

Controllers ==
  {"header", "backToTop", "menu", "accordion", "slider", "countdown", "tagger"}

\* The optional elements a controller works on.
Needs(c) ==
  CASE c = "header" -> {"header"}
    [] c = "backToTop" -> {"backToTop"}
    [] c = "menu" -> {"nav"}
    [] c = "accordion" -> {"accordion"}
    [] c = "slider" -> {"slider"}
    [] c = "countdown" -> {"ctaTimer"}
    [] OTHER -> {}

\* script.js, evaluated top to bottom, then its DOMContentLoaded handler.
\* "backToTopButton.addEventListener(...)" at module level throws a TypeError when
\* #backToTop is absent: the statements after it (the load listener that starts the
\* countdown, the pricing cards, the back-to-top height, the link tagger) never run.
\* The scroll listener toggleBackToTopButton is registered one line earlier.
BootScript(p) ==
  LET aborted == "backToTop" \notin p
  IN [wired |-> {c \in {"header", "menu", "accordion", "slider"} : Needs(c) \subseteq p}
                  \cup (IF aborted THEN {} ELSE {"backToTop", "countdown", "tagger"}),
      raised |-> IF aborted THEN {"backToTopButton.addEventListener"} ELSE {},
      timer |-> FALSE,
      loadFired |-> FALSE]

\* optimized: every init function returns when its element is absent;
\* initHeaderAndBackToTop returns when #header is absent, before it reaches the
\* back-to-top button and the mobile menu.
BootOptimized(p) ==
  [wired |-> {c \in {"header", "accordion", "slider"} : Needs(c) \subseteq p}
               \cup {c \in {"backToTop", "menu"} : Needs(c) \cup {"header"} \subseteq p}
               \cup {"countdown", "tagger"},
   raised |-> {},
   timer |-> FALSE,
   loadFired |-> FALSE]

\* Exceptions raised by the scroll listeners.
\* script.js toggleBackToTopButton dereferences backToTopButton unguarded.
ScrollRaises(i, p) ==
  IF i = "script" /\ "backToTop" \notin p THEN {"backToTopButton.classList"} ELSE {}

\* Exceptions raised by the document click listeners of the accordion.
\* script.js registers its listener even without an accordion, and calls the
\* block-scoped closePanel from outside its block.
ClickRaises(i, p, outside) ==
  IF i = "optimized" THEN {}
  ELSE IF "accordion" \notin p THEN {"accordion.contains"}
  ELSE IF outside THEN {"closePanel"}
  ELSE {}

\* Exceptions raised by updateCountdown; renders tells that the stored target lies
\* ahead, so that the digits are written.
CountdownRaises(i, p, renders) ==
  IF "ctaTimer" \notin p \/ ~renders THEN {}
  ELSE IF i = "script" /\ "digits" \notin p THEN {"getElementById(days).innerHTML"}
  ELSE {}

InitPage ==
  /\ present \in SUBSET Optional
  /\ boot = [i \in Impls |-> IF i = "script" THEN BootScript(present)
                                ELSE BootOptimized(present)]

\* a scroll event
PageScroll ==
  /\ boot' = [i \in Impls |-> [boot[i] EXCEPT !.raised = @ \cup ScrollRaises(i, present)]]
  /\ UNCHANGED <<present, notPage>>

\* a click, inside or outside the accordion
PageClick ==
  /\ \E outside \in BOOLEAN :
       boot' = [i \in Impls |->
                 [boot[i] EXCEPT !.raised = @ \cup ClickRaises(i, present, outside)]]
  /\ UNCHANGED <<present, notPage>>

\* window "load": updateCountdown(), then setInterval(updateCountdown, 1000).
\* In script.js an exception in updateCountdown leaves the handler before
\* setInterval is reached.
PageLoad ==
  /\ \A i \in Impls : ~boot[i].loadFired
  /\ \E renders \in BOOLEAN :
       boot' = [i \in Impls |->
                 IF "countdown" \notin boot[i].wired
                   THEN [boot[i] EXCEPT !.loadFired = TRUE]
                   ELSE LET r == CountdownRaises(i, present, renders)
                        IN [boot[i] EXCEPT !.loadFired = TRUE,
                                           !.raised = @ \cup r,
                                           !.timer = (i = "optimized") \/ r = {}]]
  /\ UNCHANGED <<present, notPage>>

\* the countdown interval fires
PageTick ==
  /\ \E i \in Impls : boot[i].timer
  /\ \E renders \in BOOLEAN :
       boot' = [i \in Impls |->
                 IF boot[i].timer
                   THEN [boot[i] EXCEPT !.raised =
                           @ \cup CountdownRaises(i, present, renders)]
                   ELSE boot[i]]
  /\ UNCHANGED <<present, notPage>>

NextPage ==
  \/ PageScroll
  \/ PageClick
  \/ PageLoad
  \/ PageTick

StartPage ==
  InitPage /\ IdleScroll /\ IdleObserver /\ IdleSlider /\ IdleAccordion /\ IdleCountdown
    /\ IdleTagger /\ IdleHeight

SpecPage == StartPage /\ [][NextPage]_vars

(***************************************************************************)
(* BACK-TO-TOP SPACING: the custom property --back-to-top-height           *)
(***************************************************************************)
\* Lengths are in half pixels, so that a rect height such as 48.5px is a number of
\* the model and Math.ceil has something to round.
BannerSelectors == 1..NumBannerSelectors

\* getBoundingClientRect().height of the button: 0 (not rendered), 48.5px, 60px
ButtonRects == {0, 97, 120}

\* getComputedStyle(backBtn).height: "auto", or a length
ButtonStyles == {[auto |-> TRUE, len |-> 0], [auto |-> FALSE, len |-> 0],
                 [auto |-> FALSE, len |-> 96]}

Buttons ==
  {[present |-> FALSE, rect |-> 0, style |-> [auto |-> TRUE, len |-> 0]]}
    \cup [present : {TRUE}, rect : ButtonRects, style : ButtonStyles]

\* window.innerHeight: 600px, 800px
InnerHeights == {1200, 1600}

\* document.querySelector(sel) found nothing
NoBanner == [present |-> FALSE, height |-> 0, bottom |-> 0]

\* The rect of a banner: height 0, 40.5px or 80px; bottom 589.5px, 590px or 800px.
BannerRects == [present : {TRUE}, height : {0, 81, 160}, bottom : {1179, 1180, 1600}]

\* parseFloat(styles.height): NaN for "auto"; NaN and 0 are falsy
ParsedStyleHeight(b) == IF b.style.auto THEN 0 ELSE b.style.len

\* backHeight (lines 603-612)
BackHeight(b) ==
  IF b.present
    THEN IF b.rect # 0 THEN b.rect
         ELSE IF ParsedStyleHeight(b) # 0 THEN ParsedStyleHeight(b)
         ELSE DefaultBackHeight
    ELSE DefaultBackHeight

\* the loop over bannerSelectors, from selector n on, with bannerExtra so far
RECURSIVE BannerExtraFrom(_, _, _, _)
BannerExtraFrom(n, bn, ih, extra) ==
  IF n > NumBannerSelectors THEN extra
  ELSE IF bn[n].present /\ bn[n].height # 0 /\ bn[n].bottom >= ih - BottomMargin
    THEN BannerExtraFrom(n + 1, bn, ih, Max(extra, bn[n].height + BannerClearance))
    ELSE BannerExtraFrom(n + 1, bn, ih, extra)

\* Math.floor and Math.ceil of a length, in pixels
FloorPx(len) == len \div 2
CeilPx(len) == (len + 1) \div 2

\* the same computation rounding down
UpdateBackToTopHeightFloor(b, bn, ih, throws) ==
  IF throws THEN FallbackPx
  ELSE FloorPx(BackHeight(b) + ButtonPadding + BannerExtraFrom(1, bn, ih, 0))

\* updateBackToTopHeight (the same text in both files): the pixels it writes.
\* throws: an exception left the try block.
updateBackToTopHeight(b, bn, ih, throws) ==
  IF throws THEN FallbackPx
  ELSE CeilPx(BackHeight(b) + ButtonPadding + BannerExtraFrom(1, bn, ih, 0))

\* What a recomputation leaves in cssVar and lastRun.
Recompute(b, bn, ih, throws) ==
  /\ cssVar' = [i \in Impls |-> updateBackToTopHeight(b, bn, ih, throws)]
  /\ lastRun' = IF throws THEN "threw" ELSE "ok"

\* The state after the IIFE ran: listeners and observers attached, and the first
\* updateBackToTopHeight() done.
InitHeight ==
  /\ backBtn \in Buttons
  /\ banner \in [BannerSelectors -> {NoBanner}]
  /\ innerHeight \in InnerHeights
  /\ \E throws \in BOOLEAN :
       /\ cssVar = [i \in Impls |-> updateBackToTopHeight(backBtn, banner, innerHeight, throws)]
       /\ lastRun = IF throws THEN "threw" ELSE "ok"

\* window "load" or "resize": the listener is updateBackToTopHeight.
WindowResize ==
  /\ \E ih \in InnerHeights, throws \in BOOLEAN :
       /\ innerHeight' = ih
       /\ Recompute(backBtn, banner, ih, throws)
  /\ UNCHANGED <<backBtn, banner, notHeight>>

\* The button's box changes; the ResizeObserver attached to it calls
\* updateBackToTopHeight.
ButtonResized ==
  /\ backBtn.present
  /\ \E b \in Buttons, throws \in BOOLEAN :
       /\ b.present
       /\ b # backBtn
       /\ backBtn' = b
       /\ Recompute(b, banner, innerHeight, throws)
  /\ UNCHANGED <<banner, innerHeight, notHeight>>

\* A banner element is inserted into or removed from the body; the
\* MutationObserver (childList, subtree) calls updateBackToTopHeight.
BannerMutation ==
  /\ \E s \in BannerSelectors, r \in BannerRects \cup {NoBanner}, throws \in BOOLEAN :
       /\ r.present # banner[s].present
       /\ banner' = [banner EXCEPT ![s] = r]
       /\ Recompute(backBtn, banner', innerHeight, throws)
  /\ UNCHANGED <<backBtn, innerHeight, notHeight>>

\* A banner that is in the page changes its box (a style change, an animation):
\* no listener or observer of this controller is notified.
BannerMoves ==
  /\ \E s \in BannerSelectors, r \in BannerRects :
       /\ banner[s].present
       /\ r # banner[s]
       /\ banner' = [banner EXCEPT ![s] = r]
  /\ lastRun' = "none"
  /\ UNCHANGED <<backBtn, innerHeight, cssVar, notHeight>>

NextHeight ==
  \/ WindowResize
  \/ ButtonResized
  \/ BannerMutation
  \/ BannerMoves

StartHeight ==
  InitHeight /\ IdleScroll /\ IdleObserver /\ IdleSlider /\ IdleAccordion /\ IdleCountdown
    /\ IdleTagger /\ IdlePage

SpecHeight == StartHeight /\ [][NextHeight]_vars

(***************************************************************************)
(* Claims about the scroll coordinator (checked under SpecScroll).         *)
(***************************************************************************)

\* C1: between two consecutive animation frames every scroll-driven DOM-update
\* routine (updateHeader, the back-to-top toggle, the active-link update) is
\* invoked at most once, however many scroll events were dispatched.
C1_AtMostOncePerFrame ==
  \A i \in Impls : \A r \in Routines : sc[i].calls[r] <= 1

\* C3: in every reachable state the header does not carry the class "hide" while
\* the mobile navigation (#mainNav) carries the class "active".
C3_NoHideWhileMenuOpen ==
  \A i \in Impls : sc[i].menuOpen => ~sc[i].hide

\* C4: after each completed scroll update the back-to-top button is shown if and
\* only if the offset the update sampled is greater than 300; the sample is the
\* page offset of that moment.
C4_BackToTopIffAbove300 ==
  \A i \in Impls :
    /\ "updateHeader" \in sc[i].lastRun =>
         /\ sc[i].sample = pageYOffset
         /\ sc[i].backShow <=> (sc[i].sample > 300)
    /\ "toggleBackToTopButton" \in sc[i].lastRun /\ "updateHeader" \notin sc[i].lastRun =>
         (sc[i].backShow <=> (pageYOffset > 300))

\* C4 witness: a frame update that followed a scroll has sampled exactly 300 in
\* both files and left the button hidden.
C4_Witness ==
  /\ frameClosed
  /\ \A i \in Impls :
       /\ "updateHeader" \in sc[i].lastRun
       /\ sc[i].calls["updateHeader"] = 1
       /\ sc[i].sample = 300
       /\ ~sc[i].backShow

\* C11: after a scroll-driven frame update has thrown, the coordinator is idle
\* again: every later scroll event leaves a frame update of that coordinator
\* scheduled.
C11_ThrowKeepsScheduling ==
  \A i \in Impls : \A r \in sc[i].threw :
    scrollsInFrame > 0 => Queued(sc[i], r)

\* C12: the scroll-driven routines that run for one animation frame all read the
\* same scroll offset (one sample), and after the frame the header's scrolled
\* state, the back-to-top visibility and the active link are those of that sample.
C12_SingleSamplePerFrame ==
  \A i \in Impls :
    /\ ~sc[i].mixed
    /\ (frameClosed /\ "updateHeader" \in sc[i].lastRun) =>
         /\ sc[i].scrolled <=> (sc[i].sample > 50)
         /\ sc[i].backShow <=> (sc[i].sample > 300)
         /\ \A k \in Sections :
              (sc[i].sample + 100 >= SectionTop(k)
                 /\ sc[i].sample + 100 < SectionTop(k) + SectionHeight(k)
                 /\ sc[i].calls["setActiveLink"] > 0)
                => sc[i].navActive = {l \in NavLinks : LinkHref(l) = k}

\* the pending frame callbacks of routine r
Pending(s, r) == Cardinality({n \in 1..Len(s.raf) : s.raf[n] = r})

\* C18: for each coordinator that coalesces through requestAnimationFrame (the
\* header coordinator of both files, the active-link coordinator of the optimized
\* file), ticking is true exactly when one frame callback is pending, and never
\* more than one callback is pending.
C18_TickingIffOnePending ==
  \A i \in Impls :
    /\ sc[i].ticking <=> (Pending(sc[i], "updateHeader") = 1)
    /\ Pending(sc[i], "updateHeader") <= 1
    /\ i = "optimized" =>
         /\ sc[i].navTicking <=> (Pending(sc[i], "setActiveLink") = 1)
         /\ Pending(sc[i], "setActiveLink") <= 1

C20_ActiveLinkRule ==
  [][\A i \in Impls :
       "setActiveLink" \in sc'[i].lastRun =>
         LET pos == pageYOffset' + 100
             hit == {k \in Sections :
                       SectionTop(k) <= pos /\ pos < SectionTop(k) + SectionHeight(k)}
         IN /\ \A k \in hit :
                 sc'[i].navActive = {l \in NavLinks : LinkHref(l) = k}
            /\ hit = {} => sc'[i].navActive = sc[i].navActive]_vars

\* C20 witness: at offset 50 (position 150, between sections 1 and 2) an update has
\* left the link of section 3 active in both files.
C20_Witness ==
  /\ pageYOffset = 50
  /\ \A i \in Impls :
       /\ "setActiveLink" \in sc[i].lastRun
       /\ sc[i].navActive = {3}

(***************************************************************************)
(* Claims about the header coordinator and the menu (SpecCoordinator).     *)
(***************************************************************************)
\* the four attributes of the mobile menu agree
MenuConsistent(s) ==
  /\ s.menuOpen <=> s.ariaExpanded = "true"
  /\ s.menuOpen <=> s.btnActive
  /\ s.menuOpen <=> s.bodyLocked

MenuAttributes(s) == <<s.menuOpen, s.ariaExpanded, s.btnActive, s.bodyLocked>>

\* C31: a click on the menu button, and any step that writes one of the menu's
\* four attributes, leaves them in agreement (nav active iff aria-expanded "true"
\* iff button active iff body scroll locked); once they agree they keep agreeing;
\* and a click outside the menu and the button leaves the menu closed.
C31_MenuConsistent ==
  [][\A i \in Impls :
       /\ MenuButtonClick => MenuConsistent(sc'[i])
       /\ MenuAttributes(sc'[i]) # MenuAttributes(sc[i]) => MenuConsistent(sc'[i])
       /\ MenuConsistent(sc[i]) => MenuConsistent(sc'[i])
       /\ OutsideMenuClick => ~sc'[i].menuOpen]_vars

\* C31 witness: the page was scrolled past the back-to-top threshold and a click
\* on the button opened the menu: in both files all four attributes are set.
C31_Witness ==
  /\ pageYOffset = BackToTopThreshold + 1
  /\ \A i \in Impls :
       /\ sc[i].menuOpen /\ sc[i].ariaExpanded = "true"
       /\ sc[i].btnActive /\ sc[i].bodyLocked
       /\ sc[i].backShow

\* the last step was a frame in which both files ran updateHeader
BothUpdated ==
  frameClosed /\ \A i \in Impls : "updateHeader" \in sc[i].lastRun

SameHeaderState ==
  /\ sc["script"].scrolled = sc["optimized"].scrolled
  /\ sc["script"].hide = sc["optimized"].hide
  /\ sc["script"].backShow = sc["optimized"].backShow
  /\ sc["script"].lastScroll = sc["optimized"].lastScroll

\* C33 as stated: for the same height of the header element, after every frame
\* update the two files have the same scrolled and hide state, the same
\* back-to-top visibility and the same previous offset.
C33_AsStated ==
  BothUpdated => SameHeaderState

\* C33 amended: the same holds when header.offsetHeight is not 0, so that both
\* files compare the offset with the same headerHeight.
C33_SameAfterFrame ==
  (BothUpdated /\ offsetHeight # 0) => SameHeaderState

\* C33 witness: an 80px header; a frame update at offset 301 hid the header and
\* showed the back-to-top button in both files.
C33_Witness ==
  /\ BothUpdated
  /\ offsetHeight = DefaultHeaderHeight
  /\ pageYOffset = BackToTopThreshold + 1
  /\ \A i \in Impls :
       sc[i].hide /\ sc[i].scrolled /\ sc[i].backShow /\ ~sc[i].menuOpen
         /\ sc[i].lastScroll = BackToTopThreshold + 1

\* the header state and the back-to-top visibility are those of the offset y
Reflects(s, y) ==
  /\ s.scrolled = (y > ScrolledThreshold)
  /\ s.backShow = (y > BackToTopThreshold)

\* C34: whenever the coordinator is Idle (no frame callback pending) the scrolled
\* state and the back-to-top visibility are those of the current scroll offset,
\* and a Pending coordinator returns to Idle once a frame is rendered.
C34_NoUpdateLost ==
  /\ [](\A i \in Impls : ~sc[i].ticking => Reflects(sc[i], pageYOffset))
  /\ \A i \in Impls : sc[i].ticking ~> ~sc[i].ticking

\* C34 witness: two scroll events at different offsets were coalesced into one
\* frame callback (script.js read two offsets in this frame); the frame ran it
\* once, and both files are Idle and show the state of the final offset 301.
C34_Witness ==
  /\ frameClosed
  /\ pageYOffset = BackToTopThreshold + 1
  /\ sc["script"].mixed
  /\ \A i \in Impls :
       /\ ~sc[i].ticking
       /\ sc[i].calls["updateHeader"] = 1
       /\ sc[i].scrolled /\ sc[i].backShow

(***************************************************************************)
(* Claims about the visibility observers (checked under SpecObserver).     *)
(***************************************************************************)

\* C2: for every element registered with a visibility observer, the callback's
\* effect (the lazy image's load step, the addition of aos-animate) has happened at
\* most once, and only after the observer reported the element as intersecting.
C2_OneShotAfterIntersecting ==
  \A i \in Impls :
    /\ \A k \in Images : img[i][k].registered =>
         /\ img[i][k].loads <= 1
         /\ img[i][k].loads > 0 => k \in seenIn[i].images
    /\ \A k \in AosEls : aos[i][k].registered =>
         /\ aos[i][k].adds <= 1
         /\ aos[i][k].adds > 0 => k \in seenIn[i].aosEls

\* C2 witness: image 1 was loaded by the callback in both files while image 2 is
\* still observed, and the optimized file has animated a [data-aos] element.
C2_Witness ==
  /\ \A i \in Impls : img[i][1].loads = 1 /\ ~img[i][1].observed /\ img[i][2].observed
  /\ aos["optimized"][1].adds = 1
  /\ aos["optimized"][2].observed

\* C27: a registered element that was not yet reported intersecting is still
\* observed, whatever non-intersecting reports it got and whichever other elements
\* settled; the step that first reports it intersecting runs the visible branch of
\* its callback (the image's load step, or nothing to load for an image marked
\* data-loaded="true"; the addition of aos-animate) and stops observing it; and
\* only elements that were reported intersecting are no longer observed.
C27_ObservedUntilIntersecting ==
  /\ [](\A i \in Impls :
         /\ \A k \in Images : img[i][k].registered =>
              /\ k \notin seenIn[i].images => img[i][k].observed
              /\ ~img[i][k].observed => k \in seenIn[i].images
         /\ \A k \in AosEls : aos[i][k].registered =>
              /\ k \notin seenIn[i].aosEls => aos[i][k].observed
              /\ ~aos[i][k].observed => k \in seenIn[i].aosEls)
  /\ [][\A i \in Impls :
         /\ \A k \in seenIn'[i].images \ seenIn[i].images :
              /\ ~img'[i][k].observed
              /\ \/ img'[i][k].loads = img[i][k].loads + 1
                 \/ img[i][k].dataLoaded = "true"
         /\ \A k \in seenIn'[i].aosEls \ seenIn[i].aosEls :
              /\ ~aos'[i][k].observed
              /\ aos'[i][k].animate
              /\ aos'[i][k].adds = aos[i][k].adds + 1]_vars

\* C27 witness: image 2 was reported intersecting and finished loading in both
\* files, and the optimized file animated [data-aos] element 2, while image 1 and
\* element 1 were never reported intersecting and are still observed.
C27_Witness ==
  /\ \A i \in Impls :
       /\ img[i][2].loads = 1 /\ img[i][2].dataLoaded = "true" /\ ~img[i][2].observed
       /\ 1 \notin seenIn[i].images /\ img[i][1].observed
  /\ aos["optimized"][2].adds = 1
  /\ 1 \notin seenIn["optimized"].aosEls
  /\ aos["optimized"][1].observed

\* C13: without IntersectionObserver and without the AOS library, after
\* initialization no lazy image shows the placeholder, every lazy image whose URL
\* the markup gives (in src or in data-src) has it in src, and every [data-aos]
\* element carries aos-animate.
C13_DegradesSafely ==
  (~hasIO /\ ~hasAOS) =>
    \A i \in Impls :
      /\ \A k \in Images :
           /\ img[i][k].src # "placeholder"
           /\ img[i][k].dataSrc = "url" => img[i][k].src = "url"
      /\ \A k \in AosEls : aos[i][k].animate

(***************************************************************************)
(* Claims about the page structure (checked under SpecPage).               *)
(***************************************************************************)
\* the exceptions that come from dereferencing an absent element
NullDereferences ==
  {"backToTopButton.addEventListener", "backToTopButton.classList",
   "accordion.contains", "getElementById(days).innerHTML"}

\* C14: whichever optional elements the page lacks, no handler has raised an
\* exception on an absent element (at script load, at initialization, on scroll,
\* click, load or timer tick), and every controller whose own elements are present
\* is wired.
C14_AbsentIsSilentNoOp ==
  \A i \in Impls :
    /\ boot[i].raised \cap NullDereferences = {}
    /\ \A c \in Controllers : Needs(c) \subseteq present => c \in boot[i].wired

\* C32: on a page without a header element, the back-to-top controller
\* (visibility toggling and click action) and the mobile menu toggle are wired
\* whenever their own elements are present, whatever events were dispatched.
C32_WorksWithoutHeader ==
  "header" \notin present =>
    \A i \in Impls : \A c \in {"backToTop", "menu"} :
      Needs(c) \subseteq present => c \in boot[i].wired

(***************************************************************************)
(* Claims about the hero slider (checked under SpecSlider).                *)
(***************************************************************************)

\* C5: at any moment at most one auto-advance interval timer of the hero slider is
\* live, whatever pointer-enter, pointer-leave, page-hidden and page-visible events
\* were dispatched.
C5_AtMostOneLiveTimer ==
  \A i \in Impls : sl[i].live <= 1

\* C15: while the pointer is over the hero slider or the page is hidden, no
\* auto-advance interval timer is live.
C15_PausedWhileHoveredOrHidden ==
  \A i \in Impls : (hovered \/ docHidden) => sl[i].live = 0

\* C26: whenever the page is visible and the pointer is not over the hero slider an
\* auto-advance timer is live, and under fair timer firing a slideshow that has
\* made n advances makes another one unless the pointer enters or the page is
\* hidden first.
C26_ResumesAndAdvances ==
  /\ [](\A i \in Impls : (~hovered /\ ~docHidden) => sl[i].live > 0)
  /\ \A i \in Impls : \A n \in 1..MaxAdvances :
       (Len(sl[i].trail) = n /\ ~hovered /\ ~docHidden)
         ~> (Len(sl[i].trail) > n \/ hovered \/ docHidden)

\* C26 witness: hover and hiding overlapped and both ended (script.js holds the two
\* timers its two resumptions created), and both files advanced afterwards.
C26_Witness ==
  /\ ~hovered /\ ~docHidden
  /\ sl["script"].live = 2
  /\ sl["optimized"].live = 1
  /\ \A i \in Impls : Len(sl[i].trail) >= 2

\* C6: exactly one slide carries the class "active", and it is the slide at the
\* current index.
C6_ExactlyOneActive ==
  \A i \in Impls : sl[i].active = {sl[i].currentIndex}

\* C6 witness: both files have advanced past slide 0 of a three-slide slider.
C6_Witness ==
  /\ numSlides = 3
  /\ \A i \in Impls : sl[i].currentIndex = 2 /\ Len(sl[i].trail) >= 3

\* C7: the current index stays in 0..N-1, and the index after N consecutive
\* advances is the index they started from.
C7_CyclicIndex ==
  \A i \in Impls :
    /\ sl[i].currentIndex \in 0..(numSlides - 1)
    /\ sl[i].currentIndex = sl[i].trail[Len(sl[i].trail)]
    /\ \A k \in 1..(Len(sl[i].trail) - numSlides) :
         sl[i].trail[k + numSlides] = sl[i].trail[k]

\* C7 witness: a three-slide slider has advanced four times in both files, so
\* three consecutive advances from index 0 and from index 1 are on record.
C7_Witness ==
  /\ numSlides = 3
  /\ \A i \in Impls : Len(sl[i].trail) = 5 /\ sl[i].currentIndex = 1

(***************************************************************************)
(* Claims about the accordion (checked under SpecAccordion).               *)
(***************************************************************************)

\* C8: when item B is opened while another item A is open, afterwards B is the only
\* open item and the max-height of A's panel is cleared.
C8_OpenClosesOthers ==
  \A i \in Impls :
    (accLast[i].kind = "open" /\ accLast[i].before \ {accLast[i].item} # {}) =>
      /\ OpenItems(acc[i]) = {accLast[i].item}
      /\ {k \in Items : acc[i][k].active} = {accLast[i].item}
      /\ acc[i][accLast[i].item].maxHeight = "px"
      /\ \A k \in accLast[i].before \ {accLast[i].item} : acc[i][k].maxHeight = ""

\* C8 witness: item 2 was opened while item 1 was open, in both files.
C8_Witness ==
  \A i \in Impls :
    /\ accLast[i].kind = "open"
    /\ accLast[i].item = 2
    /\ 1 \in accLast[i].before
    /\ acc[i][2].expanded = "true"

\* C21: whatever the markup (several headers may carry aria-expanded="true") and
\* whatever clicks and Enter/Space activations followed, at most one item is open.
C21_AtMostOneOpen ==
  \A i \in Impls : Cardinality(OpenItems(acc[i])) <= 1

\* C22 as stated: for every item, the header's aria-expanded is "true" if and only
\* if the item has class active, if and only if the panel has a pixel max-height, if
\* and only if the icon shows fa-minus.
C22_AsStated ==
  \A i \in Impls : \A k \in Items :
    LET open == acc[i][k].expanded = "true"
    IN /\ open <=> acc[i][k].active
       /\ open <=> (acc[i][k].maxHeight = "px")
       /\ open <=> (acc[i][k].icon = "minus")

\* C22 amended: the same, the icon being fa-minus when open and fa-plus when
\* closed for the items whose header has an icon.
C22_AttributesAgree ==
  \A i \in Impls : \A k \in Items :
    LET open == acc[i][k].expanded = "true"
    IN /\ open <=> acc[i][k].active
       /\ open <=> (acc[i][k].maxHeight = "px")
       /\ acc[i][k].icon # "none" => (open <=> (acc[i][k].icon = "minus"))
       /\ acc[i][k].icon # "none" => (~open <=> (acc[i][k].icon = "plus"))

\* C22 witness: item 1, which has an icon, was opened by a click while item 2,
\* which has none, was open; both files show item 1 open with fa-minus.
C22_Witness ==
  \A i \in Impls :
    /\ accLast[i].kind = "open" /\ accLast[i].item = 1 /\ 2 \in accLast[i].before
    /\ acc[i][1].expanded = "true" /\ acc[i][1].icon = "minus"
    /\ acc[i][2].expanded = "false" /\ acc[i][2].icon = "none"

\* C23: after a click outside the accordion no item is open: every header has
\* aria-expanded="false" and every panel's max-height is cleared.
C23_OutsideClickClosesAll ==
  \A i \in Impls :
    accLast[i].kind = "outside" =>
      \A k \in Items : acc[i][k].expanded = "false" /\ acc[i][k].maxHeight = ""

(***************************************************************************)
(* Claims about the countdown (checked under SpecCountdown).               *)
(***************************************************************************)

\* C9: a tick that finds the stored target earlier than the current time replaces
\* it by the current time plus 4 days (345600000 ms), and the digits on display
\* are never negative.
C9_ElapsedResetsNoNegative ==
  \A i \in Impls :
    /\ cd[i].last.elapsed => cd[i].attr = toISOString(now + 345600000)
    /\ cd[i].shown.kind = "num" =>
         /\ cd[i].shown.days >= 0
         /\ cd[i].shown.hours >= 0
         /\ cd[i].shown.minutes >= 0
         /\ cd[i].shown.seconds >= 0

\* C9 witness: an interval tick found a target that had been shown before and has
\* since elapsed, in both files.
C9_Witness ==
  /\ ticks > 0
  /\ \A i \in Impls : cd[i].last.elapsed /\ cd[i].shown.kind = "num"

\* C16: a countdown update (the one at load or an interval tick) that finds an
\* unparsable string in data-countdown-date stores the current time plus 4 days
\* (345600000 ms) as the new target and leaves no "NaN" in the digits.
C16_UnparsableTreatedAsElapsed ==
  [][\A i \in Impls :
       cd[i].attr.kind = "invalid" =>
         /\ cd'[i].attr = toISOString(now' + 345600000)
         /\ cd'[i].shown.kind # "nan"]_vars

\* C24: an update that renders a remaining time d >= 0 (in ms) writes units with
\* 0 <= hours < 24, 0 <= minutes < 60, 0 <= seconds < 60, days >= 0 and
\* days*86400 + hours*3600 + minutes*60 + seconds = floor(d / 1000).
C24_UnitsDecompose ==
  [][\A i \in Impls :
       (/\ cd'[i].last.ran
        /\ ~cd'[i].last.elapsed
        /\ cd[i].attr.kind # "invalid"
        /\ cd'[i].attr.kind = "iso"
        /\ cd'[i].attr.ms - now' >= 0) =>
         LET d == cd'[i].attr.ms - now'
             u == cd'[i].shown
         IN /\ u.kind = "num"
            /\ u.days >= 0
            /\ u.hours >= 0 /\ u.hours < 24
            /\ u.minutes >= 0 /\ u.minutes < 60
            /\ u.seconds >= 0 /\ u.seconds < 60
            /\ u.days * 86400 + u.hours * 3600 + u.minutes * 60 + u.seconds
                 = d \div 1000]_vars

\* C24 witness: both files show 3 days 23:59:59, one second after a target four
\* days ahead was set.
C24_Witness ==
  \A i \in Impls :
    /\ cd[i].last.ran
    /\ cd[i].shown = [kind |-> "num", days |-> 3, hours |-> 23, minutes |-> 59,
                       seconds |-> 59]

\* C25: the countdown carries animate-pulse only if the days value rendered last
\* is below 1.
C25_PulseOnlyBelowOneDay ==
  \A i \in Impls :
    cd[i].pulse => (cd[i].shown.kind = "num" /\ cd[i].shown.days < 1)

(***************************************************************************)
(* Claims about the outbound link tagger (checked under SpecTagger).       *)
(***************************************************************************)
\* the values of key in query q, in order
ValuesOf(q, key) == SelectSeq(q, LAMBDA p : p.k = key)

KeysOf(q) == {q[n].k : n \in 1..Len(q)}

\* the recognized tracking keys the page URL carries
PageTracked == {TrackingKeys[n] : n \in 1..Len(TrackingKeys)} \cap
                 {key \in PageKeys : pageParams[key] # Null}

\* the keys the tagger writes: those of the page, or the default triple
Written == IF PageTracked = {} THEN KeysOf(DefaultParams) ELSE PageTracked

\* C10 as stated: after initialization every data-out anchor whose href contains
\* the partner domain carries each recognized page parameter with the page's value,
\* keeps each of its own parameters whose key is not one of those, and has noopener
\* in rel.
C10_AsStated ==
  \A i \in Impls :
    (tagRuns > 0 /\ origLink.dataOut /\ origLink.href.kind # "none"
       /\ origLink.href.partner) =>
      /\ \A key \in PageTracked : Get(link[i].href.query, key) = pageParams[key]
      /\ \A key \in KeysOf(origLink.href.query) \ PageTracked :
           ValuesOf(link[i].href.query, key) = ValuesOf(origLink.href.query, key)
      /\ \E n \in 1..Len(link[i].rel) : link[i].rel[n] = "noopener"

\* C10 amended: the same for anchors whose href is an absolute URL, where the
\* parameters kept are those whose key the tagger does not write (the page's
\* recognized keys, or utm_source, utm_medium, utm_campaign when the page has none).
C10_AbsoluteUrlMerged ==
  \A i \in Impls :
    (tagRuns > 0 /\ origLink.dataOut /\ origLink.href.kind = "abs"
       /\ origLink.href.partner) =>
      /\ \A key \in PageTracked : Get(link[i].href.query, key) = pageParams[key]
      /\ \A key \in KeysOf(origLink.href.query) \ Written :
           ValuesOf(link[i].href.query, key) = ValuesOf(origLink.href.query, key)
      /\ \E n \in 1..Len(link[i].rel) : link[i].rel[n] = "noopener"

C10_Witness ==
  /\ tagRuns = 1
  /\ origLink.dataOut /\ origLink.href.kind = "abs" /\ origLink.href.partner
  /\ origLink.href.query = <<[k |-> "utm_source", v |-> "google"]>>
  /\ origLink.rel = <<>>
  /\ pageParams["utm_campaign"] = "summer" /\ pageParams["gclid"] = Null
  /\ \A i \in Impls :
       /\ link[i].href.query = <<[k |-> "utm_source", v |-> "google"],
                                 [k |-> "utm_campaign", v |-> "summer"]>>
       /\ link[i].rel = <<"noopener">>

\* C28: an anchor that lacks data-out, or has no href, or whose href does not
\* contain the partner domain keeps the href and the rel of the markup, whatever the
\* page URL carries and however often the tagger ran.
C28_OtherAnchorsUntouched ==
  (~origLink.dataOut \/ origLink.href.kind = "none" \/ ~origLink.href.partner) =>
    \A i \in Impls : link[i] = origLink

\* C28 witness: the tagger ran on a page with a campaign parameter; the anchor is
\* marked data-out and has an absolute href with a query, but to another domain.
C28_Witness ==
  /\ tagRuns >= 1
  /\ pageParams["utm_campaign"] = "summer"
  /\ origLink.dataOut
  /\ origLink.href.kind = "abs"
  /\ ~origLink.href.partner
  /\ Len(origLink.href.query) = MaxLinkParams
  /\ \A i \in Impls : link[i] = origLink

\* C29: a run of the tagger that is not the first one leaves the href and the rel
\* of every link as they were before it.
C29_SecondRunChangesNothing ==
  [][tagRuns >= 1 => link' = link]_vars

\* C29 witness: the tagger ran twice on a partner link whose query already had two
\* parameters and whose rel had no noopener; the first run rewrote href and rel in
\* both files, and rel carries noopener once.
C29_Witness ==
  /\ tagRuns = 2
  /\ origLink.dataOut /\ origLink.href.kind = "abs" /\ origLink.href.partner
  /\ Len(origLink.href.query) = MaxLinkParams
  /\ origLink.rel = <<"nofollow">>
  /\ \A i \in Impls :
       /\ link[i].href.query # origLink.href.query
       /\ link[i].rel = <<"nofollow", "noopener">>

(***************************************************************************)
(* Claims about the back-to-top spacing (checked under SpecHeight).        *)
(***************************************************************************)
\* the banners that count: non-zero height, bottom at or below the viewport height
\* minus 10px
Overlapping ==
  {s \in BannerSelectors :
     /\ banner[s].present
     /\ banner[s].height # 0
     /\ banner[s].bottom >= innerHeight - BottomMargin}

\* extra: the largest bannerHeight + 10px over those banners, 0 if there is none
ExtraIs(x) ==
  IF Overlapping = {} THEN x = 0
  ELSE /\ \E s \in Overlapping : x = banner[s].height + BannerClearance
       /\ \A s \in Overlapping : x >= banner[s].height + BannerClearance

\* px is the ceiling of len half pixels
CeilingIs(px, len) == 2 * px >= len /\ 2 * (px - 1) < len

\* the value of the property is ceil(h + 12px + extra) for the extra the page has
ValueFor(h) ==
  \A i \in Impls :
    \E x \in {0} \cup {banner[s].height + BannerClearance : s \in BannerSelectors} :
      ExtraIs(x) /\ CeilingIs(cssVar[i], h + ButtonPadding + x)

\* C30 as stated: after a recomputation the property is ceil(h + 12 + extra) px with
\* h the button's bounding-rect height, or 60 when the button is absent or that
\* height is 0; and 72px after a computation that threw.
C30_AsStated ==
  /\ lastRun = "ok" =>
       ValueFor(IF backBtn.present /\ backBtn.rect # 0 THEN backBtn.rect
                ELSE DefaultBackHeight)
  /\ lastRun = "threw" => \A i \in Impls : cssVar[i] = FallbackPx

\* C30 amended: h is the button's bounding-rect height; when that is 0, the height
\* of its computed style if that is a non-zero number; and 60 when the button is
\* absent or both are 0 or not a number.
C30_HeightFormula ==
  /\ lastRun = "ok" =>
       ValueFor(IF backBtn.present /\ backBtn.rect # 0 THEN backBtn.rect
                ELSE IF backBtn.present /\ ~backBtn.style.auto /\ backBtn.style.len # 0
                  THEN backBtn.style.len
                ELSE DefaultBackHeight)
  /\ lastRun = "threw" => \A i \in Impls : cssVar[i] = FallbackPx

\* C30 witness: a 48.5px button and two overlapping banners of 40.5px and 80px:
\* ceil(48.5 + 12 + 90) = 151px in both files.
C30_Witness ==
  /\ lastRun = "ok"
  /\ backBtn.present /\ backBtn.rect = 97
  /\ banner[1].present /\ banner[1].height = 81
  /\ banner[2].present /\ banner[2].height = 160
  /\ Overlapping = {1, 2}
  /\ \A i \in Impls : cssVar[i] = 151

====
